---- MODULE Spec2Model ----
(***************************************************************************)
(* State-machine model of src/main.ts: the discovery / enrichment / report *)
(* pipeline of the GitHub code-search scraper.  One action per stretch of  *)
(* code between two suspension points (await) of the single control flow.  *)
(***************************************************************************)
EXTENDS Integers, Sequences, FiniteSets, TLC

\* ---------------------------------------------------------------- bounds
MaxId == 2          \* repository ids are 1..MaxId
MaxItems == 2       \* items in one discovery page
MaxEdges == 2       \* edges in one enrichment response

\* ------------------------------------------------------ program constants
MaxPages == 3       \* while (page <= 3)
Threshold == 100    \* repo.stargazers_count >= 100

\* ------------------------------------------------------------ value sets
Ids == 1..MaxId
FullNames == {"a/a", "b/b"}
EdgeNames == FullNames \cup {"z/z"}
Stars == {99, 100, 101}
EdgeStars == {99, 100}
RepoNames == {"n"}
Urls == {"u"}

\* The full_name the search API reports for an id: an id names one
\* repository throughout a run, and two ids may carry the same full_name.
NameOf(id) == IF id % 2 = 1 THEN "a/a" ELSE "b/b"

\* domain.ts Repository
Repositories ==
    {r \in [id: Ids, name: RepoNames, full_name: FullNames,
            stargazers_count: Stars, html_url: Urls] :
        r.full_name = NameOf(r.id)}

\* domain.ts Edge (edge.node)
Edges == [nameWithOwner: EdgeNames, stargazerCount: EdgeStars]

SeqsUpTo(S, n) == UNION {[1..k -> S] : k \in 0..n}

\* CodeSearchResult.items, each item reduced to its item.repository
ItemSeqs == SeqsUpTo(Repositories, MaxItems)
EdgeSeqs == SeqsUpTo(Edges, MaxEdges)

Range(s) == {s[i] : i \in 1..Len(s)}

Undefined == -1     \* Map.get on an absent key

\* ------------------------------------------------------------- variables
VARIABLES
    token,          \* TOKEN is set in the environment
    flags,          \* parsed flags: --help, no search flag, or a search term
    pc,             \* position of the control flow
    ending,         \* how main ended
    page,           \* fetchRepositories: page
    uniqueRepos,    \* fetchRepositories: Map<number, Repository>, insertion order
    curItems,       \* items of the fetched page not yet passed to uniqueRepos.set
    requests,       \* requests issued so far, in order
    delays,         \* inter-page delays incurred
    repos,          \* main: result of fetchRepositories
    enrichOutcome,  \* how the enrichment request ended
    respEdges,      \* result.data.search.edges of a successful enrichment
    reposWithStars, \* main: result of enrichWithStarCount
    filteredRepos,  \* main: filteredRepos (sorted in place by printResults)
    printed,        \* result lines written by printResults
    log,            \* console lines that carry a value
    pageFail,       \* history: page whose request failed, and how
    seenIds,        \* history: ids of items of successfully fetched pages
    lastSeen,       \* history: last payload seen per id
    seenOrder,      \* history: ids by first appearance
    replaced        \* history: a set call replaced a record by a different one

vars == <<token, flags, pc, ending, page, uniqueRepos, curItems, requests,
          delays, repos, enrichOutcome, respEdges, reposWithStars,
          filteredRepos, printed, log, pageFail, seenIds, lastSeen, seenOrder,
          replaced>>

NoRepo == [id |-> 0]
NoFail == [page |-> 0, kind |-> "none"]

DiscoveryRequest(n) == [kind |-> "search", page |-> n]
EnrichmentRequest == [kind |-> "graphql", page |-> 0]

\* ----------------------------------------------------------- pure helpers

\* variant of MapSet: a key already present keeps its first record
MapSetKeepFirst(m, r) ==
    IF \E i \in 1..Len(m) : m[i].id = r.id
    THEN m
    ELSE Append(m, r)

\* variant of MapSet: a key seen again is deleted and inserted anew, so it
\* moves to the end
MapSetMoveToEnd(m, r) ==
    LET Other(x) == x.id # r.id
    IN Append(SelectSeq(m, Other), r)

\* variant of MapSet: every item is kept, as by a push onto an array
MapSetAppend(m, r) == Append(m, r)

\* Map.prototype.set on the insertion-ordered map: an existing key keeps its
\* position and takes the new value, a new key goes last.
MapSet(m, r) ==
    IF \E i \in 1..Len(m) : m[i].id = r.id
    THEN [i \in 1..Len(m) |-> IF m[i].id = r.id THEN r ELSE m[i]]
    ELSE Append(m, r)

\* Array.from(uniqueRepos.values())
MapValues(m) == m

\* variant of StarMapOf: the first edge of a name wins
RECURSIVE StarMapFirstWins(_)
StarMapFirstWins(edges) ==
    IF edges = <<>>
    THEN [n \in EdgeNames |-> Undefined]
    ELSE LET e == edges[1]
             rest == StarMapFirstWins(Tail(edges))
         IN [rest EXCEPT ![e.nameWithOwner] = e.stargazerCount]

\* starMap after edges.forEach(starMap.set(nameWithOwner, stargazerCount))
RECURSIVE StarMapOf(_)
StarMapOf(edges) ==
    IF edges = <<>>
    THEN [n \in EdgeNames |-> Undefined]
    ELSE LET e == edges[Len(edges)]
             rest == StarMapOf(SubSeq(edges, 1, Len(edges) - 1))
         IN [rest EXCEPT ![e.nameWithOwner] = e.stargazerCount]

\* variant of EnrichOne: a record without a looked-up count is reset to 0
EnrichOneDefaultZero(repo, starMap) ==
    LET stargazerCount == starMap[repo.full_name]
    IN IF stargazerCount # Undefined
       THEN [repo EXCEPT !.stargazers_count = stargazerCount]
       ELSE [repo EXCEPT !.stargazers_count = 0]

\* the callback of repos.map in enrichWithStarCount
EnrichOne(repo, starMap) ==
    LET stargazerCount == starMap[repo.full_name]
    IN IF stargazerCount # Undefined
       THEN [repo EXCEPT !.stargazers_count = stargazerCount]
       ELSE repo

\* variant of EnrichAll: records without a looked-up count are dropped
EnrichAllMatched(rs, edges) ==
    LET starMap == StarMapOf(edges)
        Matched(repo) == starMap[repo.full_name] # Undefined
        kept == SelectSeq(rs, Matched)
    IN [i \in 1..Len(kept) |-> EnrichOne(kept[i], starMap)]

EnrichAll(rs, edges) ==
    LET starMap == StarMapOf(edges)
    IN [i \in 1..Len(rs) |-> EnrichOne(rs[i], starMap)]

\* variant of PassesFilter: strict comparison
PassesFilterStrict(repo) == repo.stargazers_count > Threshold

\* the predicate of reposWithStars.filter
PassesFilter(repo) == repo.stargazers_count >= Threshold

Filter(rs) == SelectSeq(rs, PassesFilter)

\* the comparator of repos.sort
Compare(a, b) == b.stargazers_count - a.stargazers_count

\* variant of InsertSorted: an element goes before its equals
RECURSIVE InsertSortedUnstable(_, _)
InsertSortedUnstable(s, r) ==
    IF s = <<>> THEN <<r>>
    ELSE IF Compare(Head(s), r) < 0
         THEN <<Head(s)>> \o InsertSortedUnstable(Tail(s), r)
         ELSE <<r>> \o s

\* Array.prototype.sort is stable: an element goes behind every element that
\* does not compare greater than it.
RECURSIVE InsertSorted(_, _)
InsertSorted(s, r) ==
    IF s = <<>> THEN <<r>>
    ELSE IF Compare(Head(s), r) <= 0
         THEN <<Head(s)>> \o InsertSorted(Tail(s), r)
         ELSE <<r>> \o s

RECURSIVE SortRepos(_)
SortRepos(s) ==
    IF s = <<>> THEN <<>>
    ELSE InsertSorted(SortRepos(SubSeq(s, 1, Len(s) - 1)), s[Len(s)])

\* the lines written by the forEach of printResults
ResultLines(s) == [i \in 1..Len(s) |-> [rank |-> i, repo |-> s[i]]]

\* history helpers: the ids of a page in order of first appearance
RECURSIVE NewIds(_, _)
NewIds(items, known) ==
    IF items = <<>> THEN <<>>
    ELSE IF Head(items).id \in known
         THEN NewIds(Tail(items), known)
         ELSE <<Head(items).id>> \o NewIds(Tail(items), known \cup {Head(items).id})

LastWithId(items, id) ==
    items[CHOOSE i \in 1..Len(items) :
            /\ items[i].id = id
            /\ \A j \in (i + 1)..Len(items) : items[j].id # id]

\* ------------------------------------------------------------------ Init
Init ==
    /\ token \in BOOLEAN
    /\ flags \in {"help", "none", "term"}
    /\ pc = "start"
    /\ ending = "none"
    /\ page = 1
    /\ uniqueRepos = <<>>
    /\ curItems = <<>>
    /\ requests = <<>>
    /\ delays = 0
    /\ repos = <<>>
    /\ enrichOutcome = "none"
    /\ respEdges = <<>>
    /\ reposWithStars = <<>>
    /\ filteredRepos = <<>>
    /\ printed = <<>>
    /\ log = [found |-> -1, enriched |-> -1, header |-> FALSE, count |-> -1]
    /\ pageFail = NoFail
    /\ seenIds = {}
    /\ lastSeen = [i \in Ids |-> NoRepo]
    /\ seenOrder = <<>>
    /\ replaced = FALSE

discoveryVars == <<page, uniqueRepos, curItems, delays, repos, pageFail,
                   seenIds, lastSeen, seenOrder, replaced>>
enrichVars == <<enrichOutcome, respEdges, reposWithStars>>
reportVars == <<filteredRepos, printed>>

\* ------------------------------------------------------------------ main

\* main, lines 17-21: TOKEN missing
MissingToken ==
    /\ pc = "start"
    /\ ~token
    /\ pc' = "done"
    /\ ending' = "exit"
    /\ UNCHANGED <<token, flags, requests, log>>
    /\ UNCHANGED <<discoveryVars, enrichVars, reportVars>>

\* main, lines 27-30: --help or no search flag
Usage ==
    /\ pc = "start"
    /\ token
    /\ flags \in {"help", "none"}
    /\ pc' = "done"
    /\ ending' = "usage"
    /\ UNCHANGED <<token, flags, requests, log>>
    /\ UNCHANGED <<discoveryVars, enrichVars, reportVars>>

\* variant of StartDiscovery: the pipeline starts without the token test
StartDiscoveryNoTokenCheck ==
    /\ pc = "start"
    /\ flags = "term"
    /\ uniqueRepos' = <<>>
    /\ page' = 1
    /\ pc' = "loop"
    /\ UNCHANGED <<token, flags, ending, requests, log, curItems, delays,
                   repos, pageFail, seenIds, lastSeen, seenOrder, replaced>>
    /\ UNCHANGED <<enrichVars, reportVars>>

\* main, lines 32-36, and fetchRepositories, lines 68-70
StartDiscovery ==
    /\ pc = "start"
    /\ token
    /\ flags = "term"
    /\ uniqueRepos' = <<>>
    /\ page' = 1
    /\ pc' = "loop"
    /\ UNCHANGED <<token, flags, ending, requests, log, curItems, delays,
                   repos, pageFail, seenIds, lastSeen, seenOrder, replaced>>
    /\ UNCHANGED <<enrichVars, reportVars>>

\* ----------------------------------------------------- fetchRepositories

\* lines 72-87: the loop test holds, the request for the page is issued
RequestPage ==
    /\ pc = "loop"
    /\ page <= MaxPages
    /\ requests' = Append(requests, DiscoveryRequest(page))
    /\ pc' = "await_page"
    /\ UNCHANGED <<token, flags, ending, log>>
    /\ UNCHANGED <<discoveryVars, enrichVars, reportVars>>

\* line 105 and main line 37: fetchRepositories returns
ReturnRepos ==
    /\ repos' = MapValues(uniqueRepos)
    /\ log' = [log EXCEPT !.found = Len(MapValues(uniqueRepos))]
    /\ pc' = "discovered"

\* lines 72, 105: the loop test fails after the last page
FinishPages ==
    /\ pc = "loop"
    /\ page > MaxPages
    /\ ReturnRepos
    /\ UNCHANGED <<token, flags, ending, requests>>
    /\ UNCHANGED <<page, uniqueRepos, curItems, delays, pageFail,
                   seenIds, lastSeen, seenOrder, replaced>>
    /\ UNCHANGED <<enrichVars, reportVars>>

\* main, lines 47-53: an exception of the pipeline reaches the catch of main
FatalError ==
    /\ pc' = "done"
    /\ ending' = "fatal"

\* variant of DiscoveryThrows: the error is logged as fatal and the pipeline
\* goes on with the records collected so far
DiscoveryThrowsContinues(kind) ==
    /\ pc = "await_page"
    /\ pageFail' = [page |-> page, kind |-> kind]
    /\ ending' = "fatal"
    /\ ReturnRepos
    /\ UNCHANGED <<token, flags, requests>>
    /\ UNCHANGED <<page, uniqueRepos, curItems, delays,
                   seenIds, lastSeen, seenOrder, replaced>>
    /\ UNCHANGED <<enrichVars, reportVars>>

\* an exception leaves fetchRepositories, which has no handler of its own
DiscoveryThrows(kind) ==
    /\ pc = "await_page"
    /\ pageFail' = [page |-> page, kind |-> kind]
    /\ FatalError
    /\ UNCHANGED <<token, flags, requests, log>>
    /\ UNCHANGED <<page, uniqueRepos, curItems, delays, repos,
                   seenIds, lastSeen, seenOrder, replaced>>
    /\ UNCHANGED <<enrichVars, reportVars>>

\* line 81: fetch rejects (network failure)
PageNetworkError == DiscoveryThrows("network")

\* lines 89-90: non-success status whose body is not JSON: response.json() rejects
PageHttpErrorBadBody == DiscoveryThrows("status_badbody")

\* lines 95-98: success status, body not JSON or without an items array
PageMalformed == DiscoveryThrows("malformed")

\* variant of PageHttpError: the failed page is requested again
PageHttpErrorRetry ==
    /\ pc = "await_page"
    /\ pageFail' = [page |-> page, kind |-> "status"]
    /\ pc' = "loop"
    /\ UNCHANGED <<token, flags, ending, requests, log>>
    /\ UNCHANGED <<page, uniqueRepos, curItems, delays, repos,
                   seenIds, lastSeen, seenOrder, replaced>>
    /\ UNCHANGED <<enrichVars, reportVars>>

\* lines 89-93, 105: non-success status with a JSON body: log, break, return
PageHttpError ==
    /\ pc = "await_page"
    /\ pageFail' = [page |-> page, kind |-> "status"]
    /\ ReturnRepos
    /\ UNCHANGED <<token, flags, ending, requests>>
    /\ UNCHANGED <<page, uniqueRepos, curItems, delays,
                   seenIds, lastSeen, seenOrder, replaced>>
    /\ UNCHANGED <<enrichVars, reportVars>>

\* lines 95-98: a well-formed page arrives; the forEach starts
PageOk ==
    /\ pc = "await_page"
    /\ \E items \in ItemSeqs :
        /\ curItems' = items
        /\ seenIds' = seenIds \cup {r.id : r \in Range(items)}
        /\ lastSeen' = [i \in Ids |->
                          IF \E k \in 1..Len(items) : items[k].id = i
                          THEN LastWithId(items, i) ELSE lastSeen[i]]
        /\ seenOrder' = seenOrder \o NewIds(items, seenIds)
    /\ pc' = "merge"
    /\ UNCHANGED <<token, flags, ending, requests, log>>
    /\ UNCHANGED <<page, uniqueRepos, delays, repos, pageFail, replaced>>
    /\ UNCHANGED <<enrichVars, reportVars>>

\* variant of MergeDone: the forEach stops one item early
MergeDoneEarly == Len(curItems) <= 1

\* the forEach of lines 98-100 has passed every item of the page
MergeDone == curItems = <<>>

\* lines 98-100: one call of the forEach callback
MergeItem ==
    /\ pc = "merge"
    /\ ~MergeDone
    /\ uniqueRepos' = MapSet(uniqueRepos, Head(curItems))
    /\ curItems' = Tail(curItems)
    /\ replaced' = (replaced \/ \E i \in 1..Len(uniqueRepos) :
                        /\ uniqueRepos[i].id = Head(curItems).id
                        /\ uniqueRepos[i] # Head(curItems))
    /\ UNCHANGED <<token, flags, pc, ending, requests, log>>
    /\ UNCHANGED <<page, delays, repos, pageFail, seenIds, lastSeen, seenOrder>>
    /\ UNCHANGED <<enrichVars, reportVars>>

\* line 102: the forEach is over, the delay timer is started
StartDelay ==
    /\ pc = "merge"
    /\ MergeDone
    /\ pc' = "delay"
    /\ UNCHANGED <<token, flags, ending, requests, log>>
    /\ UNCHANGED <<discoveryVars, enrichVars, reportVars>>

\* variant of EndDelay: the promise of the timer is never resolved
EndDelayNeverResolves ==
    /\ pc = "delay"
    /\ UNCHANGED vars

\* lines 102-103: the delay elapses, page++
EndDelay ==
    /\ pc = "delay"
    /\ delays' = delays + 1
    /\ page' = page + 1
    /\ pc' = "loop"
    /\ UNCHANGED <<token, flags, ending, requests, log>>
    /\ UNCHANGED <<uniqueRepos, curItems, repos, pageFail,
                   seenIds, lastSeen, seenOrder, replaced>>
    /\ UNCHANGED <<enrichVars, reportVars>>

\* --------------------------------------------------- enrichWithStarCount

\* lines 109-111: empty input, no query is built
EnrichEmpty ==
    /\ pc = "discovered"
    /\ Len(repos) = 0
    /\ reposWithStars' = <<>>
    /\ pc' = "enriched"
    /\ UNCHANGED <<token, flags, ending, requests, log>>
    /\ UNCHANGED <<enrichOutcome, respEdges>>
    /\ UNCHANGED <<discoveryVars, reportVars>>

\* variant of RequestEnrich: the query is posted for an empty input too
RequestEnrichAlways ==
    /\ pc = "discovered"
    /\ requests' = Append(requests, EnrichmentRequest)
    /\ pc' = "await_enrich"
    /\ UNCHANGED <<token, flags, ending, log>>
    /\ UNCHANGED <<discoveryVars, enrichVars, reportVars>>

\* lines 112-142: the batched query is built and posted
RequestEnrich ==
    /\ pc = "discovered"
    /\ Len(repos) # 0
    /\ requests' = Append(requests, EnrichmentRequest)
    /\ pc' = "await_enrich"
    /\ UNCHANGED <<token, flags, ending, log>>
    /\ UNCHANGED <<discoveryVars, enrichVars, reportVars>>

\* variant of ReturnOriginal: the failure leaves enrichWithStarCount
ReturnOriginalThrows(kind) ==
    /\ pc = "await_enrich"
    /\ enrichOutcome' = kind
    /\ FatalError
    /\ UNCHANGED <<token, flags, requests, log, respEdges, reposWithStars>>
    /\ UNCHANGED <<discoveryVars, reportVars>>

\* lines 147 and 174: return repos
ReturnOriginal(kind) ==
    /\ pc = "await_enrich"
    /\ enrichOutcome' = kind
    /\ reposWithStars' = repos
    /\ pc' = "enriched"
    /\ UNCHANGED <<token, flags, ending, requests, log, respEdges>>
    /\ UNCHANGED <<discoveryVars, reportVars>>

\* lines 135, 168-174: fetch rejects
EnrichNetworkError == ReturnOriginal("network")

\* lines 144-147: non-success status with a JSON body
EnrichHttpError == ReturnOriginal("status")

\* lines 144-145, 168-174: non-success status, response.json() rejects
EnrichHttpErrorBadBody == ReturnOriginal("status_badbody")

\* lines 150-151, 168-174: body not JSON or without data.search.edges
EnrichMalformed == ReturnOriginal("malformed")

\* lines 150-167: a well-formed response
EnrichOk ==
    /\ pc = "await_enrich"
    /\ \E edges \in EdgeSeqs :
        /\ respEdges' = edges
        /\ reposWithStars' = EnrichAll(repos, edges)
        /\ log' = [log EXCEPT !.enriched = Len(edges)]
    /\ enrichOutcome' = "ok"
    /\ pc' = "enriched"
    /\ UNCHANGED <<token, flags, ending, requests>>
    /\ UNCHANGED <<discoveryVars, reportVars>>

\* ------------------------------------------------- main and printResults

\* main lines 41-46 and printResults lines 178-185
Report ==
    /\ pc = "enriched"
    /\ LET filtered == Filter(reposWithStars)
           sorted == SortRepos(filtered)
       IN /\ filteredRepos' = sorted
          /\ printed' = ResultLines(sorted)
          /\ log' = [log EXCEPT !.header = TRUE, !.count = Len(filtered)]
    /\ pc' = "done"
    /\ ending' = "report"
    /\ UNCHANGED <<token, flags, requests>>
    /\ UNCHANGED <<discoveryVars, enrichVars>>

Next ==
    \/ MissingToken
    \/ Usage
    \/ StartDiscovery
    \/ RequestPage
    \/ FinishPages
    \/ PageNetworkError
    \/ PageHttpErrorBadBody
    \/ PageMalformed
    \/ PageHttpError
    \/ PageOk
    \/ MergeItem
    \/ StartDelay
    \/ EndDelay
    \/ EnrichEmpty
    \/ RequestEnrich
    \/ EnrichNetworkError
    \/ EnrichHttpError
    \/ EnrichHttpErrorBadBody
    \/ EnrichMalformed
    \/ EnrichOk
    \/ Report

Spec == Init /\ [][Next]_vars

\* The single control flow always takes its next step: every awaited request
\* yields a response or an exception, and the timer fires.
FairSpec == Spec /\ WF_vars(Next)

TypeOK ==
    /\ token \in BOOLEAN
    /\ pc \in {"start", "loop", "await_page", "merge", "delay", "discovered",
               "await_enrich", "enriched", "done"}
    /\ ending \in {"none", "exit", "usage", "fatal", "report"}
    /\ page \in 1..(MaxPages + 1)
    /\ uniqueRepos \in Seq(Repositories)
    /\ curItems \in ItemSeqs
    /\ delays \in 0..MaxPages
    /\ repos \in Seq(Repositories)
    /\ reposWithStars \in Seq(Repositories)
    /\ filteredRepos \in Seq(Repositories)

\* ================================================================ claims

IdsOf(s) == {s[i].id : i \in 1..Len(s)}

\* fetchRepositories has returned to main
Returned == log.found # -1

\* enrichWithStarCount has returned to main
Enriched == pc = "enriched" \/ ending = "report"

EnrichFailed == enrichOutcome \in {"network", "status", "status_badbody", "malformed"}

NoEnrichRequest == \A k \in 1..Len(requests) : requests[k].kind # "graphql"

\* the records of the fetched pages, deduplicated by id, last payload kept
IsDedupOfSeen(s) ==
    /\ Len(s) = Cardinality(seenIds)
    /\ IdsOf(s) = seenIds
    /\ \A i \in 1..Len(s) : s[i] = lastSeen[s[i].id]

\* C1: when the enrichment request of a non-empty input fails (transport,
\* non-success status, unparsable body), enrichWithStarCount returns the
\* input records unchanged and nothing is thrown to main.
C1_EnrichNeverFails ==
    EnrichFailed =>
        /\ Len(repos) > 0
        /\ Enriched
        /\ ending # "fatal"
        /\ reposWithStars = repos

C1_Witness ==
    /\ pc = "enriched"
    /\ enrichOutcome = "malformed"
    /\ Len(repos) = MaxId
    /\ reposWithStars = repos

\* C2 (as stated): a non-success status on page N stops pagination, the
\* operation does not fail, and the result is the deduplicated records of
\* the pages before N.
C2_NonSuccessStopsWithoutFailing ==
    pageFail.kind \in {"status", "status_badbody"} =>
        /\ \A k \in 1..Len(requests) : requests[k].page <= pageFail.page
        /\ ending # "fatal"
        /\ Returned
        /\ IsDedupOfSeen(repos)

\* C3 (as stated): a per-page failure of either kind is never thrown to the
\* caller of fetchRepositories; the call returns the records of the earlier
\* pages and the run goes on.
C3_PageFailureNeverThrown ==
    pageFail.kind # "none" =>
        /\ ending # "fatal"
        /\ Returned
        /\ IsDedupOfSeen(repos)

\* C4: the sequence returned by fetchRepositories holds each id seen on the
\* fetched pages exactly once, with the payload of the last item of that id.
C4_DedupLastSeen ==
    Returned =>
        /\ \A i, j \in 1..Len(repos) : repos[i].id = repos[j].id => i = j
        /\ Len(repos) = Cardinality(seenIds)
        /\ \A i \in 1..Len(repos) :
              /\ repos[i].id \in seenIds
              /\ repos[i] = lastSeen[repos[i].id]

C4_Witness ==
    /\ Returned
    /\ replaced
    /\ page = MaxPages + 1
    /\ Len(repos) = MaxId

\* C5: whatever the enrichment request yields, the output of
\* enrichWithStarCount has the length of its input and the same id at every
\* position.
C5_EnrichSameLengthAndIds ==
    Enriched =>
        /\ Len(reposWithStars) = Len(repos)
        /\ \A i \in 1..Len(repos) : reposWithStars[i].id = repos[i].id

C5_Witness ==
    /\ Enriched
    /\ enrichOutcome = "ok"
    /\ Len(repos) > 0
    /\ \E k \in 1..Len(respEdges) :
          \A i \in 1..Len(repos) : repos[i].full_name # respEdges[k].nameWithOwner
    /\ \E k \in 1..Len(respEdges) :
          \E i \in 1..Len(repos) : repos[i].full_name = respEdges[k].nameWithOwner

\* an edge of the response names record i of the input
Matches(k, i) == respEdges[k].nameWithOwner = repos[i].full_name

HasMatch(i) == \E k \in 1..Len(respEdges) : Matches(k, i)

LastMatch(i) ==
    CHOOSE k \in 1..Len(respEdges) :
        /\ Matches(k, i)
        /\ \A l \in (k + 1)..Len(respEdges) : ~Matches(l, i)

\* C6 (as stated): after a successful response a record named by an edge
\* carries the stargazerCount of that edge, whichever edge of that name it
\* is; a record no edge names keeps its count.
C6_CountOfAnyMatchingEdge ==
    (Enriched /\ enrichOutcome = "ok") =>
        \A i \in 1..Len(repos) :
            /\ \A k \in 1..Len(respEdges) :
                  Matches(k, i) =>
                      reposWithStars[i].stargazers_count = respEdges[k].stargazerCount
            /\ ~HasMatch(i) =>
                  reposWithStars[i].stargazers_count = repos[i].stargazers_count

\* C6 (amended): after a successful response a record named by some edge
\* carries the stargazerCount of the last edge of that name; a record no
\* edge names keeps its count.
C6_CountOfLastMatchingEdge ==
    (Enriched /\ enrichOutcome = "ok") =>
        \A i \in 1..Len(repos) :
            /\ HasMatch(i) =>
                  reposWithStars[i].stargazers_count =
                      respEdges[LastMatch(i)].stargazerCount
            /\ ~HasMatch(i) =>
                  reposWithStars[i].stargazers_count = repos[i].stargazers_count

C6_Witness ==
    /\ Enriched
    /\ enrichOutcome = "ok"
    /\ Len(respEdges) = 2
    /\ respEdges[1].nameWithOwner = respEdges[2].nameWithOwner
    /\ respEdges[1].stargazerCount # respEdges[2].stargazerCount
    /\ \E i \in 1..Len(repos) :
          /\ Matches(2, i)
          /\ repos[i].stargazers_count = respEdges[1].stargazerCount
    /\ \E i \in 1..Len(repos) : ~HasMatch(i)

\* the count a record has after enrichment, from the response alone
PostEnrichCount(i) ==
    IF enrichOutcome = "ok" /\ HasMatch(i)
    THEN respEdges[LastMatch(i)].stargazerCount
    ELSE repos[i].stargazers_count

PrintedRepos == {printed[k].repo : k \in 1..Len(printed)}

\* C7: the report lists exactly the records returned by enrichment whose
\* count is at least 100, and the count tested is the post-enrichment one.
C7_ReportIsThresholdFilter ==
    ending = "report" =>
        /\ PrintedRepos =
              {reposWithStars[i] : i \in
                  {j \in 1..Len(reposWithStars) :
                      reposWithStars[j].stargazers_count >= 100}}
        /\ Len(printed) = Cardinality(PrintedRepos)
        /\ \A i \in 1..Len(repos) :
              (PostEnrichCount(i) >= 100) <=>
                  (\E k \in 1..Len(printed) : printed[k].repo.id = repos[i].id)

C7_Witness ==
    /\ ending = "report"
    /\ enrichOutcome = "ok"
    /\ \E i \in 1..Len(repos) :
          /\ repos[i].stargazers_count = 99
          /\ reposWithStars[i].stargazers_count = 100
          /\ reposWithStars[i] \in PrintedRepos
    /\ \E i \in 1..Len(repos) :
          /\ repos[i].stargazers_count = 100
          /\ reposWithStars[i].stargazers_count = 99
          /\ reposWithStars[i] \notin PrintedRepos

\* position of a record in the sequence enrichment returned
PosInEnriched(r) == CHOOSE i \in 1..Len(reposWithStars) : reposWithStars[i] = r

\* C8: printResults writes the records by non-increasing count, records of
\* equal count in the order they had before the sort, with ranks 1, 2, ...
C8_SortedStableRanked ==
    ending = "report" =>
        /\ \A i \in 1..Len(printed) : printed[i].rank = i
        /\ \A i, j \in 1..Len(printed) :
              i < j =>
                  /\ printed[i].repo.stargazers_count >= printed[j].repo.stargazers_count
                  /\ printed[i].repo.stargazers_count = printed[j].repo.stargazers_count
                        => PosInEnriched(printed[i].repo) < PosInEnriched(printed[j].repo)

C8_Witness ==
    /\ ending = "report"
    /\ Len(printed) = MaxId
    /\ printed[1].repo.stargazers_count = printed[2].repo.stargazers_count
    /\ printed[1].repo.id > printed[2].repo.id

\* C9: with no repository discovered, enrichWithStarCount returns the empty
\* sequence and no enrichment request is issued in the run.
C9_EmptyInputNoRequest ==
    (Returned /\ Len(repos) = 0) =>
        /\ NoEnrichRequest
        /\ pc # "await_enrich"
        /\ reposWithStars = <<>>
        /\ enrichOutcome = "none"

C9_Witness ==
    /\ ending = "report"
    /\ pageFail = [page |-> 1, kind |-> "status"]
    /\ Len(repos) = 0
    /\ reposWithStars = <<>>
    /\ NoEnrichRequest

\* C10: while a discovery request is in flight every item of the earlier
\* pages is in the deduplication set; the enrichment request is issued only
\* after discovery has finished, and no discovery request follows it.
C10_RequestOrdering ==
    /\ pc = "await_page" =>
          /\ curItems = <<>>
          /\ IsDedupOfSeen(uniqueRepos)
    /\ ~NoEnrichRequest =>
          /\ Returned
          /\ page = MaxPages + 1 \/ pageFail.kind = "status"
          /\ IsDedupOfSeen(repos)
    /\ \A i, j \in 1..Len(requests) :
          (i < j /\ requests[i].kind = "graphql") => requests[j].kind # "search"

C10_Witness ==
    /\ pc = "await_enrich"
    /\ page = MaxPages + 1
    /\ Len(requests) = MaxPages + 1
    /\ replaced
    /\ Len(repos) = MaxId


EnrichRequestCount ==
    Cardinality({k \in 1..Len(requests) : requests[k].kind = "graphql"})

\* C11: nothing is retried: the discovery requests of a run are for pages
\* 1, 2, 3 in this order, each at most once; at most one enrichment request
\* is issued, and exactly one once enrichment of a non-empty sequence began.
C11_NoRetry ==
    /\ \A k \in 1..Len(requests) :
          requests[k].kind = "search" => (requests[k].page = k /\ k <= MaxPages)
    /\ EnrichRequestCount <= 1
    /\ (Returned /\ pc # "discovered" /\ Len(repos) > 0) => EnrichRequestCount = 1

C11_Witness ==
    /\ ending = "report"
    /\ pageFail = [page |-> 2, kind |-> "status"]
    /\ enrichOutcome = "network"
    /\ requests = <<DiscoveryRequest(1), DiscoveryRequest(2), EnrichmentRequest>>


NoReport ==
    /\ printed = <<>>
    /\ ~log.header
    /\ log.count = -1

\* C12: without the token the run halts before any network activity: no
\* request of either kind is issued and no report is produced.
C12_MissingTokenHalts ==
    ~token =>
        /\ requests = <<>>
        /\ pc \in {"start", "done"}
        /\ ending \in {"none", "exit"}
        /\ NoReport

C12_Witness ==
    /\ ~token
    /\ flags = "term"
    /\ ending = "exit"
    /\ pc = "done"

\* C13: an exception that reaches the catch of main ends the run without a
\* report: no header, no result line, and no enrichment request after it.
C13_FatalEndsWithoutReport ==
    ending = "fatal" =>
        /\ pc = "done"
        /\ ~ENABLED Next
        /\ NoReport
        /\ NoEnrichRequest

C13_Witness ==
    /\ ending = "fatal"
    /\ pageFail = [page |-> MaxPages, kind |-> "malformed"]
    /\ Len(uniqueRepos) = MaxId
    /\ NoReport


\* C14 (as stated): the inter-page delay is incurred only before a next
\* request, never after page 3; a run whose three pages all succeed
\* incurs exactly two delays before discovery returns.
C14_NoDelayAfterFinalPage ==
    /\ pc = "delay" => page < MaxPages
    /\ delays <= MaxPages - 1
    /\ (Returned /\ page = MaxPages + 1) => delays = MaxPages - 1


\* C15: enrichment changes nothing but the star count: the output record at
\* a position has the id, name, full_name and html_url of the input record,
\* its count differs only after a successful response that names its
\* full_name, and the records reported are the records enrichment returned.
C15_OnlyStarCountChanges ==
    /\ Enriched =>
          \A i \in 1..Len(repos) :
              /\ reposWithStars[i].id = repos[i].id
              /\ reposWithStars[i].name = repos[i].name
              /\ reposWithStars[i].full_name = repos[i].full_name
              /\ reposWithStars[i].html_url = repos[i].html_url
              /\ reposWithStars[i].stargazers_count # repos[i].stargazers_count
                    => (enrichOutcome = "ok" /\ HasMatch(i))
    /\ ~Enriched => reposWithStars = <<>>
    /\ \A k \in 1..Len(printed) : printed[k].repo \in Range(reposWithStars)
    /\ \A k \in 1..Len(filteredRepos) : filteredRepos[k] \in Range(reposWithStars)

C15_Witness ==
    /\ ending = "report"
    /\ enrichOutcome = "ok"
    /\ Len(repos) = MaxId
    /\ reposWithStars[1].stargazers_count # repos[1].stargazers_count
    /\ ~HasMatch(2)
    /\ reposWithStars[2] = repos[2]
    /\ Len(printed) = MaxId


MatchedCount == Cardinality({i \in 1..Len(repos) : HasMatch(i)})

\* C16 (as stated): after a successful response the count logged by
\* enrichWithStarCount is the number of input records whose full_name was
\* found in the lookup.
C16_LoggedCountIsMatchedCount ==
    enrichOutcome = "ok" => log.enriched = MatchedCount


IdSeq(s) == [i \in 1..Len(s) |-> s[i].id]

IsPrefix(a, b) ==
    /\ Len(a) <= Len(b)
    /\ \A i \in 1..Len(a) : a[i] = b[i]

\* C17: the deduplication set keeps the ids in the order of their first
\* appearance: at every moment its ids are an initial part of the ids seen
\* so far in first-appearance order (so a set call for an id already held
\* moves nothing), and the returned sequence lists exactly that order.
C17_FirstAppearanceOrder ==
    /\ IsPrefix(IdSeq(uniqueRepos), seenOrder)
    /\ Returned => IdSeq(repos) = seenOrder

C17_Witness ==
    /\ Returned
    /\ pageFail.kind = "status"
    /\ replaced
    /\ Len(repos) = MaxId
    /\ repos[1].id = MaxId
    /\ IdSeq(repos) = seenOrder


\* C19: every reported record has an id that appeared in an item of a
\* successfully fetched page of the run, and no id is reported twice,
\* whatever the enrichment response holds.
C19_ReportedIdsDiscoveredOnce ==
    ending = "report" =>
        /\ \A k \in 1..Len(printed) : printed[k].repo.id \in seenIds
        /\ \A k, l \in 1..Len(printed) :
              printed[k].repo.id = printed[l].repo.id => k = l

C19_Witness ==
    /\ ending = "report"
    /\ Len(printed) = MaxId
    /\ replaced
    /\ enrichOutcome = "ok"
    /\ \E k \in 1..Len(respEdges) :
          /\ respEdges[k].stargazerCount >= Threshold
          /\ \A i \in 1..Len(repos) : ~Matches(k, i)


SearchRequestCount ==
    Cardinality({k \in 1..Len(requests) : requests[k].kind = "search"})

\* C18: given that every awaited request is answered, every run ends: main
\* reaches its end (report, fatal error, usage or exit on a missing token)
\* having issued at most 3 discovery requests and at most 1 enrichment
\* request.
C18_Terminates ==
    <>(/\ pc = "done"
       /\ ending \in {"report", "fatal", "usage", "exit"}
       /\ SearchRequestCount <= MaxPages
       /\ EnrichRequestCount <= 1)

C18_Witness ==
    /\ pc = "done"
    /\ ending = "report"
    /\ SearchRequestCount = MaxPages
    /\ EnrichRequestCount = 1
    /\ delays = MaxPages

====
